---- MODULE Spec2Model ----
\* A model of the Sublime Text plugin JsPrettier (src/JsPrettier.py): the text
\* command JsPrettierCommand (run, format_code, parse_prettier_options, the
\* file-type detectors) and the event listener CommandOnSave (on_pre_save).
\*
\* Strings the code looks inside (file names, scope names, exclude patterns,
\* buffers, the output of prettier) are sequences of characters, so that
\* startswith / endswith / contains / strip / fnmatch / the regular expression
\* of has_syntax_error are computed on them character by character. A string
\* the code only passes on or compares as a whole (a path, a command line flag)
\* is a sequence of one token, L("--parser").
EXTENDS Integers, Sequences, FiniteSets, TLC

VARIABLES
    file_name,      \* view.file_name(): a string or None
    scope0,         \* view.scope_name(0)
    scopeSel,       \* view.scope_name(view.sel()[0].b)
    buffer,         \* the text of the view
    sel,            \* view.sel(): the selection regions, <<begin, end>> each
    viewport,       \* where scroll_view_to last scrolled to, <<line, col>>
    settings,       \* the plugin's settings and the view's settings
    env,            \* the editor (is_st3), the file system, the path lookups, and what
                    \* the prettier process may do when it is spawned
    cwd,            \* the process working directory (os.chdir)
    error_message,  \* JsPrettierCommand._error_message
    pc,             \* "idle"; "sel": inside run's loop over view.sel(); "save": inside
                    \* run's view.run_command('save'), the view named, before on_pre_save
    loc,            \* run's local variables while the loop is under way
    inv,            \* what the current (or last) invocation of run has done
    presave         \* what the last pre-save event did, "none" once the user runs the command

vars == <<file_name, scope0, scopeSel, buffer, sel, viewport, settings, env,
          cwd, error_message, pc, loc, inv, presave>>

\* ---------------------------------------------------------------- bounds

\* The longest buffer the model lets an edit produce.
MaxBuf == 2
\* The longest stdout the prettier process returns.
MaxOut == 2

\* ---------------------------------------------------------------- strings

\* Python's None, where a string is expected.
None == <<"None">>

\* The characters of the buffers a run starts from: a letter and a line break.
Char == {"a", "\n"}
\* The characters str.strip() removes and str.isspace() accepts (Python 3):
\* the ASCII white space, the separators U+001C..U+001F, and the Unicode
\* spaces. A character TLA+ has no escape for is written by its Python escape.
Whitespace ==
    { " ", "\t", "\n", "\r", "\f", "\\x0b", "\\x1c", "\\x1d", "\\x1e", "\\x1f", "\\x85",
      "\\xa0", "\\u1680", "\\u2000", "\\u2001", "\\u2002", "\\u2003", "\\u2004", "\\u2005",
      "\\u2006", "\\u2007", "\\u2008", "\\u2009", "\\u200a", "\\u2028", "\\u2029",
      "\\u202f", "\\u205f", "\\u3000" }

\* The printable ASCII characters, U+0020 .. U+007E, in the order of their
\* code points.
Ascii ==
    <<" ", "!", "\"", "#", "$", "%", "&", "'", "(", ")", "*", "+", ",", "-", ".", "/">> \o
    <<"0", "1", "2", "3", "4", "5", "6", "7", "8", "9", ":", ";", "<", "=", ">", "?">> \o
    <<"@", "A", "B", "C", "D", "E", "F", "G", "H", "I", "J", "K", "L", "M", "N", "O">> \o
    <<"P", "Q", "R", "S", "T", "U", "V", "W", "X", "Y", "Z", "[", "\\", "]", "^", "_">> \o
    <<"\\x60", "a", "b", "c", "d", "e", "f", "g", "h", "i", "j", "k", "l", "m", "n", "o">> \o
    <<"p", "q", "r", "s", "t", "u", "v", "w", "x", "y", "z", "{", "|", "}", "~">>
HexDigits ==
    <<"0", "1", "2", "3", "4", "5", "6", "7", "8", "9", "a", "b", "c", "d", "e", "f">>
\* int(h, 16) of the digits of an escape.
RECURSIVE HexVal(_)
HexVal(h) ==
    IF Len(h) = 0 THEN 0
    ELSE 16 * HexVal(SubSeq(h, 1, Len(h) - 1))
         + (CHOOSE k \in 0..15 : HexDigits[k + 1] = SubSeq(h, Len(h), Len(h)))
\* ord(c): the code point of a character, which the ranges of a regular
\* expression and the Unicode database go by. An escaped character is \xhh,
\* \uhhhh or \Uhhhhhhhh.
AsciiOrd ==
    [c \in {Ascii[k] : k \in 1..Len(Ascii)} |-> 31 + (CHOOSE k \in 1..Len(Ascii) : Ascii[k] = c)]
Ord(c) ==
    IF c \in DOMAIN AsciiOrd THEN AsciiOrd[c]
    ELSE IF c = "\t" THEN 9 ELSE IF c = "\n" THEN 10 ELSE IF c = "\f" THEN 12
    ELSE IF c = "\r" THEN 13
    ELSE HexVal(SubSeq(c, 3, Len(c)))

Min(x, y) == IF x <= y THEN x ELSE y

RECURSIVE SeqsUpTo(_, _)
SeqsUpTo(S, n) ==
    IF n = 0 THEN {<<>>}
    ELSE LET shorter == SeqsUpTo(S, n - 1)
         IN shorter \cup {Append(s, c) : s \in {t \in shorter : Len(t) = n - 1}, c \in S}

\* A string literal of one token.
L(tok) == <<tok>>

\* bool(s) of a string or None.
Truthy(s) == s # None /\ s # <<>>

\* s.startswith(p), s.endswith(p), and util.contains(needle, hay).
StartsWith(s, p) == Len(p) <= Len(s) /\ SubSeq(s, 1, Len(p)) = p
EndsWith(s, p) == Len(p) <= Len(s) /\ SubSeq(s, Len(s) - Len(p) + 1, Len(s)) = p
contains(needle, hay) ==
    \E i \in 1..(Len(hay) - Len(needle) + 1) : SubSeq(hay, i, i + Len(needle) - 1) = needle

\* s.strip()
RECURSIVE LStrip(_)
LStrip(s) == IF s # <<>> /\ Head(s) \in Whitespace THEN LStrip(Tail(s)) ELSE s
RECURSIVE trim_trailing_ws_and_lines(_)
trim_trailing_ws_and_lines(val) ==
    IF val = None THEN None
    ELSE IF val # <<>> /\ val[Len(val)] \in Whitespace
         THEN trim_trailing_ws_and_lines(SubSeq(val, 1, Len(val) - 1))
         ELSE val
Strip(s) == LStrip(trim_trailing_ws_and_lines(s))

is_str_none_or_empty(val) == val = None \/ Strip(val) = <<>>
is_str_empty_or_whitespace_only(txt) ==
    txt = None \/ \A i \in 1..Len(txt) : txt[i] \in Whitespace

\* util.is_bool_str and str.lower on the values it accepts.
BoolStrs == {L("true"), L("True"), L("false"), L("False")}
is_bool_str(val) == val \in BoolStrs
Lower(val) ==
    IF val = L("True") THEN L("true")
    ELSE IF val = L("False") THEN L("false")
    ELSE val

\* str(b).lower() of a Python bool.
BoolLower(b) == IF b THEN L("true") ELSE L("false")

\* ---------------------------------------------------------------- view API

size(buf) == Len(buf)
\* view.substr(region): the characters at offsets begin .. end-1.
substr(buf, region) == SubSeq(buf, region[1] + 1, region[2])
empty(region) == region[1] = region[2]

\* view.replace(edit, region, text): the new buffer.
replace(buf, region, text) ==
    SubSeq(buf, 1, region[1]) \o text \o SubSeq(buf, region[2] + 1, Len(buf))

\* How the editor moves a selection end point when `region` is replaced by text.
AdjustPoint(p, region, text) ==
    IF p >= region[2] THEN p + Len(text) - (region[2] - region[1])
    ELSE IF p <= region[1] THEN p
    ELSE Min(p, region[1] + Len(text))
AdjustSel(s, region, text) ==
    [i \in 1..Len(s) |->
        <<AdjustPoint(s[i][1], region, text), AdjustPoint(s[i][2], region, text)>>]

\* view.insert(edit, point, text) at the end of the buffer: a caret there moves.
AdjustSelInsertEnd(s, point, text) ==
    [i \in 1..Len(s) |->
        IF empty(s[i]) /\ s[i][1] = point
        THEN <<point + Len(text), point + Len(text)>> ELSE s[i]]

\* sthelper.has_selection(view): some region is not empty.
has_selection(s) == \E i \in 1..Len(s) : ~empty(s[i])

\* ---------------------------------------------------------------- settings

\* const.PRETTIER_OPTION_CLI_MAP: the options the plugin passes on, in order.
PRETTIER_OPTION_CLI_MAP ==
    << [option |-> "printWidth", cli |-> L("--print-width"), default |-> L("80")],
       [option |-> "parser",     cli |-> L("--parser"),      default |-> L("babel")],
       [option |-> "semi",       cli |-> L("--semi"),        default |-> L("true")] >>
OptionNames == {PRETTIER_OPTION_CLI_MAP[i].option : i \in 1..Len(PRETTIER_OPTION_CLI_MAP)}

\* sthelper.get_sub_setting(view, option_name): the user's value, or None.
get_sub_setting(option_name) == settings.prettier_options[option_name]

\* JsPrettierCommand.tab_size, use_tabs: a view setting that is absent is {}.
tab_size == IF settings.tab_size = {} THEN 2 ELSE CHOOSE n \in settings.tab_size : TRUE
use_tabs ==
    LET translate_tabs_to_spaces ==
            IF settings.translate_tabs_to_spaces = {} THEN TRUE
            ELSE CHOOSE b \in settings.translate_tabs_to_spaces : TRUE
    IN ~translate_tabs_to_spaces

\* util.parse_additional_cli_args: the dict flattened to key, value, key, value ...;
\* a key that strips to nothing is dropped, a value that strips to nothing is left out.
RECURSIVE parse_additional_cli_args(_)
parse_additional_cli_args(args) ==
    IF args = <<>> THEN <<>>
    ELSE LET arg_key == Strip(Head(args)[1])
             arg_value == Strip(Head(args)[2])
             rest == parse_additional_cli_args(Tail(args))
         IN IF arg_key = <<>> THEN rest
            ELSE IF arg_value = <<>> THEN <<arg_key>> \o rest
            ELSE <<arg_key, IF is_bool_str(arg_value) THEN Lower(arg_value) ELSE arg_value>> \o rest

\* util.get_cli_arg_value(additional_cli_args, arg_key) of a dict: the value
\* stored under the key, or None.
RECURSIVE get_cli_arg_value(_, _)
get_cli_arg_value(args, arg_key) ==
    IF args = <<>> THEN None
    ELSE IF Head(args)[1] = arg_key THEN Head(args)[2]
    ELSE get_cli_arg_value(Tail(args), arg_key)

\* list.count(x) > 0
Count(list, x) == Cardinality({i \in 1..Len(list) : list[i] = x})

\* ---------------------------------------------------------------- detectors

\* The scope names and the file extensions the detectors (and
\* AUTO_FORMAT_FILE_EXTENSIONS) look for, character by character.
Scope ==
    [ source_js |->
          <<"s", "o", "u", "r", "c", "e", ".", "j", "s">>,
      source_js_embedded_html |->
          <<"s", "o", "u", "r", "c", "e", ".", "j", "s", ".", "e", "m", "b", "e", "d", "d", "e", "d", ".", "h", "t", "m", "l">>,
      source_css |->
          <<"s", "o", "u", "r", "c", "e", ".", "c", "s", "s">>,
      meta_selector_css |->
          <<"m", "e", "t", "a", ".", "s", "e", "l", "e", "c", "t", "o", "r", ".", "c", "s", "s">>,
      source_scss |->
          <<"s", "o", "u", "r", "c", "e", ".", "s", "c", "s", "s">>,
      source_less |->
          <<"s", "o", "u", "r", "c", "e", ".", "l", "e", "s", "s">>,
      source_ts |->
          <<"s", "o", "u", "r", "c", "e", ".", "t", "s">>,
      source_tsx |->
          <<"s", "o", "u", "r", "c", "e", ".", "t", "s", "x">>,
      source_json |->
          <<"s", "o", "u", "r", "c", "e", ".", "j", "s", "o", "n">>,
      text_html |->
          <<"t", "e", "x", "t", ".", "h", "t", "m", "l">>,
      text_html_markdown |->
          <<"t", "e", "x", "t", ".", "h", "t", "m", "l", ".", "m", "a", "r", "k", "d", "o", "w", "n">>,
      text_html_vue |->
          <<"t", "e", "x", "t", ".", "h", "t", "m", "l", ".", "v", "u", "e">> ]
Ext ==
    [ js |->
          <<".", "j", "s">>,
      jsx |->
          <<".", "j", "s", "x">>,
      css |->
          <<".", "c", "s", "s">>,
      scss |->
          <<".", "s", "c", "s", "s">>,
      less |->
          <<".", "l", "e", "s", "s">>,
      ts |->
          <<".", "t", "s">>,
      tsx |->
          <<".", "t", "s", "x">>,
      json |->
          <<".", "j", "s", "o", "n">>,
      graphql |->
          <<".", "g", "r", "a", "p", "h", "q", "l">>,
      gql |->
          <<".", "g", "q", "l">>,
      html |->
          <<".", "h", "t", "m", "l">>,
      htm |->
          <<".", "h", "t", "m">>,
      md |->
          <<".", "m", "d">>,
      vue |->
          <<".", "v", "u", "e">> ]

is_source_js ==
    StartsWith(scopeSel, Scope.source_js)
    \/ contains(Scope.source_js_embedded_html, scopeSel)

is_css ==
    IF ~Truthy(file_name) THEN FALSE
    ELSE IF \/ StartsWith(scopeSel, Scope.source_css)
            \/ EndsWith(file_name, Ext.css)
            \/ contains(Scope.meta_selector_css, scopeSel) THEN TRUE
    ELSE IF StartsWith(scopeSel, Scope.source_scss) \/ EndsWith(file_name, Ext.scss) THEN TRUE
    ELSE IF StartsWith(scopeSel, Scope.source_less) \/ EndsWith(file_name, Ext.less) THEN TRUE
    ELSE FALSE

is_typescript ==
    IF ~Truthy(file_name) THEN FALSE
    ELSE IF StartsWith(scope0, Scope.source_ts) \/ EndsWith(file_name, Ext.ts) THEN TRUE
    ELSE IF StartsWith(scope0, Scope.source_tsx) \/ EndsWith(file_name, Ext.tsx) THEN TRUE
    ELSE FALSE

is_json ==
    IF ~Truthy(file_name) THEN FALSE
    ELSE StartsWith(scope0, Scope.source_json) \/ EndsWith(file_name, Ext.json)

is_graphql ==
    IF ~Truthy(file_name) THEN FALSE
    ELSE EndsWith(file_name, Ext.graphql) \/ EndsWith(file_name, Ext.gql)

is_html ==
    IF ~Truthy(file_name) THEN FALSE
    ELSE IF \/ StartsWith(scope0, Scope.text_html_markdown)
            \/ StartsWith(scope0, Scope.text_html_vue) THEN FALSE
    ELSE \/ StartsWith(scope0, Scope.text_html)
         \/ EndsWith(file_name, Ext.html)
         \/ EndsWith(file_name, Ext.htm)

is_markdown ==
    IF ~Truthy(file_name) THEN FALSE
    ELSE StartsWith(scope0, Scope.text_html_markdown) \/ EndsWith(file_name, Ext.md)

is_vue ==
    IF ~Truthy(file_name) THEN FALSE
    ELSE StartsWith(scope0, Scope.text_html_vue) \/ EndsWith(file_name, Ext.vue)

\* sthelper.is_file_auto_formattable(view): the file name carries one of the
\* extensions the plugin formats on save.
AUTO_FORMAT_FILE_EXTENSIONS ==
    { Ext.js, Ext.jsx, Ext.json, Ext.graphql, Ext.gql, Ext.ts, Ext.tsx, Ext.css, Ext.scss,
      Ext.less, Ext.md, Ext.vue }
is_file_auto_formattable ==
    Truthy(file_name) /\ \E e \in AUTO_FORMAT_FILE_EXTENSIONS : EndsWith(file_name, e)

should_show_plugin ==
    IF settings.allow_inline_formatting THEN TRUE
    ELSE IF is_source_js THEN TRUE
    ELSE IF is_css THEN TRUE
    ELSE IF is_file_auto_formattable THEN TRUE
    ELSE FALSE

\* ---------------------------------------------------------------- options

\* The detector that decides '--parser', first match first; None when none matches.
DetectedParserJsonFirst ==
    IF is_css THEN L("css")
    ELSE IF is_json THEN L("json")
    ELSE IF is_typescript THEN L("typescript")
    ELSE IF is_graphql THEN L("graphql")
    ELSE IF is_markdown THEN L("markdown")
    ELSE IF is_vue THEN L("vue")
    ELSE None
DetectedParser ==
    IF is_css THEN L("css")
    ELSE IF is_typescript THEN L("typescript")
    ELSE IF is_json THEN L("json")
    ELSE IF is_graphql THEN L("graphql")
    ELSE IF is_markdown THEN L("markdown")
    ELSE IF is_vue THEN L("vue")
    ELSE None

\* One turn of parse_prettier_options' loop over PRETTIER_OPTION_CLI_MAP: what
\* the mapping appends to prettier_options.
MappingOptions(mapping, prettier_config_exists, has_custom_config_defined) ==
    IF mapping.option = "parser" /\ DetectedParser # None
    THEN <<mapping.cli, DetectedParser>>
    ELSE IF ~prettier_config_exists /\ ~has_custom_config_defined
    THEN LET given == get_sub_setting(mapping.option)
             option_value == Strip(IF given = None \/ given = <<>> THEN mapping.default ELSE given)
         IN <<mapping.cli, IF is_bool_str(option_value) THEN Lower(option_value) ELSE option_value>>
    ELSE <<>>

RECURSIVE MapOptions(_, _, _)
MapOptions(map, prettier_config_exists, has_custom_config_defined) ==
    IF map = <<>> THEN <<>>
    ELSE MappingOptions(Head(map), prettier_config_exists, has_custom_config_defined)
         \o MapOptions(Tail(map), prettier_config_exists, has_custom_config_defined)

\* The '--config' / '--config-precedence' / '--no-config' part.
ConfigOptionsUnlessUser(prettier_config_path, has_custom_config_defined, has_no_config_defined, has_config_precedence_defined) ==
    IF ~is_str_none_or_empty(prettier_config_path)
    THEN <<L("--config"), prettier_config_path>>
         \o (IF ~has_config_precedence_defined
             THEN <<L("--config-precedence"), L("cli-override")>> ELSE <<>>)
    ELSE IF ~has_no_config_defined /\ ~has_custom_config_defined
         THEN <<L("--no-config")>> ELSE <<>>
ConfigOptions(prettier_config_path, has_custom_config_defined, has_no_config_defined, has_config_precedence_defined) ==
    IF ~is_str_none_or_empty(prettier_config_path)
    THEN IF ~has_custom_config_defined
         THEN <<L("--config"), prettier_config_path>>
              \o (IF ~has_config_precedence_defined
                  THEN <<L("--config-precedence"), L("cli-override")>> ELSE <<>>)
         ELSE <<>>
    ELSE IF ~has_no_config_defined /\ ~has_custom_config_defined
         THEN <<L("--no-config")>> ELSE <<>>

\* The options the plugin generates itself, before the user's own arguments.
PluginOptions(prettier_config_path, has_custom_config_defined, has_no_config_defined, has_config_precedence_defined, prettier_ignore_filepath, fname) ==
    ConfigOptions(prettier_config_path, has_custom_config_defined, has_no_config_defined,
                  has_config_precedence_defined)
    \o MapOptions(PRETTIER_OPTION_CLI_MAP, ~is_str_none_or_empty(prettier_config_path),
                  has_custom_config_defined)
    \o <<L("--tab-width"), L(ToString(tab_size))>>
    \o <<L("--use-tabs"), BoolLower(use_tabs)>>
    \o (IF ~is_html THEN <<L("--stdin-filepath"), fname>> ELSE <<>>)
    \o (IF prettier_ignore_filepath # None
        THEN <<L("--ignore-path"), prettier_ignore_filepath>> ELSE <<>>)

parse_prettier_options(parsed_additional_cli_args, prettier_config_path, has_custom_config_defined, has_no_config_defined, has_config_precedence_defined, prettier_ignore_filepath, fname) ==
    PluginOptions(prettier_config_path, has_custom_config_defined, has_no_config_defined,
                  has_config_precedence_defined, prettier_ignore_filepath, fname)
    \o parsed_additional_cli_args

\* ---------------------------------------------------------------- format_code

\* util.format_error_message(error_output, error_code)
format_error_message(error_output, error_code) ==
    L("Error Message: ") \o error_output \o L("Error Code: ") \o error_code

\* has_syntax_error(error_output): the <<line, col>> that
\*   search(r'^.+?:\s(?:(?P<error>SyntaxError)):\s(?P<message>.+) \((?P<line>\d+):(?P<col>\d+)\)')
\* finds, or <<-1, -1>>. The match starts at the first character of the text;
\* '.' stands for any character but a line break, so that the text before
\* ':', and the message up to the closing ')', each lie within one line; '.+?'
\* stops at the first ':' the rest can follow, '.+' runs to the last
\* ' (line:col)' of its line, and '\d+' takes every digit.
\* '\d' of a str pattern accepts every decimal digit of the Unicode database
\* (category Nd; 66 runs of ten in Unicode 14.0), and int() reads them all.
\* These are the code points of the zeros; the digits 1 to 9 follow each.
DigitZeros ==
    { 48, 1632, 1776, 1984, 2406, 2534, 2662, 2790, 2918, 3046, 3174, 3302, 3430, 3558,
      3664, 3792, 3872, 4160, 4240, 6112, 6160, 6470, 6608, 6784, 6800, 6992, 7088, 7232,
      7248, 42528, 43216, 43264, 43472, 43504, 43600, 44016, 65296, 66720, 68912, 69734,
      69872, 69942, 70096, 70384, 70736, 70864, 71248, 71360, 71472, 71904, 72016, 72784,
      73040, 73120, 92768, 92864, 93008, 120782, 120792, 120802, 120812, 120822, 123200,
      123632, 125264, 130032 }
DigitOf(o) == {n \in 0..9 : (o - n) \in DigitZeros}
IsDigit(c) == DigitOf(Ord(c)) # {}
DigitVal(c) == CHOOSE n \in DigitOf(Ord(c)) : TRUE
SyntaxErrorWord ==
    <<"S", "y", "n", "t", "a", "x", "E", "r", "r", "o", "r">>
\* int(digits)
RECURSIVE ToInt(_)
ToInt(digits) ==
    IF digits = <<>> THEN 0
    ELSE 10 * ToInt(SubSeq(digits, 1, Len(digits) - 1)) + DigitVal(digits[Len(digits)])
\* The last position of the run of digits that starts at position i (i - 1: none).
RECURSIVE DigitsEnd(_, _)
DigitsEnd(s, i) == IF i <= Len(s) /\ IsDigit(s[i]) THEN DigitsEnd(s, i + 1) ELSE i - 1
\* No line break at the positions i .. j: what '.+?' and '.+' can run over.
OneLine(s, i, j) == \A k \in i..j : s[k] # "\n"
\* Where ':\sSyntaxError:\s' can begin, after '^.+?'.
MatchHeads(s) ==
    {i \in 2..Len(s) : /\ i + Len(SyntaxErrorWord) + 3 <= Len(s)
                        /\ OneLine(s, 1, i - 1)
                        /\ s[i] = ":"
                        /\ s[i + 1] \in Whitespace
                        /\ SubSeq(s, i + 2, i + Len(SyntaxErrorWord) + 1) = SyntaxErrorWord
                        /\ s[i + Len(SyntaxErrorWord) + 2] = ":"
                        /\ s[i + Len(SyntaxErrorWord) + 3] \in Whitespace}
\* The run of digits from i to a is not empty, and c follows it.
DigitsThen(s, i, a, c) == a >= i /\ a + 1 <= Len(s) /\ s[a + 1] = c
\* '(?P<col>\d+)\)' follows the ':' at a + 1; '(?P<line>\d+):' runs from e + 3 to a.
ColThen(s, a) == DigitsThen(s, a + 2, DigitsEnd(s, a + 2), ")")
LineThen(s, e, a) == DigitsThen(s, e + 3, a, ":") /\ ColThen(s, a)
\* ' \((?P<line>\d+):(?P<col>\d+)\)' follows position e.
MatchTail(s, e) ==
    /\ e + 2 <= Len(s) /\ s[e + 1] = " " /\ s[e + 2] = "("
    /\ LineThen(s, e, DigitsEnd(s, e + 3))
\* Where the message can end, when ':\sSyntaxError:\s' begins at i.
MatchTails(s, i) ==
    {e \in (i + Len(SyntaxErrorWord) + 4)..Len(s) :
        OneLine(s, i + Len(SyntaxErrorWord) + 4, e) /\ MatchTail(s, e)}
Matching(s) == {i \in MatchHeads(s) : MatchTails(s, i) # {}}
MinOf(S) == CHOOSE k \in S : \A h \in S : k <= h
MaxOf(S) == CHOOSE k \in S : \A h \in S : k >= h
\* int(match.group('line')), int(match.group('col')): the message ends at e,
\* the line number at a.
LineCol(s, e, a) ==
    <<ToInt(SubSeq(s, e + 3, a)), ToInt(SubSeq(s, a + 2, DigitsEnd(s, a + 2)))>>
MatchedAt(s, e) == LineCol(s, e, DigitsEnd(s, e + 3))
has_syntax_error(error_output) ==
    IF Matching(error_output) = {} THEN <<-1, -1>>
    ELSE MatchedAt(error_output, MaxOf(MatchTails(error_output, MinOf(Matching(error_output)))))

\* The command line format_code hands to Popen.
CmdAlwaysNode(node_path, prettier_cli_path, prettier_options) ==
    <<node_path>> \o <<prettier_cli_path>> \o <<L("--stdin")>> \o prettier_options
Cmd(node_path, prettier_cli_path, prettier_options) ==
    IF is_str_none_or_empty(node_path)
    THEN <<prettier_cli_path>> \o <<L("--stdin")>> \o prettier_options
    ELSE <<node_path>> \o <<prettier_cli_path>> \o <<L("--stdin")>> \o prettier_options

\* Line 306: format_code forgets the last error before it does anything else.
ResetErrorKeeps(message) == message
ResetError(message) == None

\* Lines 343-345: OSError is shown in a dialog and raised again.
RaisesNothing(proc) == FALSE
Raises(proc) == proc.kind = "oserror"

\* Lines 333-336: where format_code scrolls the view to, <<-1, -1>>: nowhere.
ScrollTo(at) == IF at[1] # -1 /\ at[2] # -1 THEN at ELSE <<-1, -1>>

\* format_code, given what Popen and communicate did (proc): the new
\* _error_message, the value returned, whether OSError was raised (after the
\* dialog), whether a warning was printed, and where the view was scrolled to.
format_code(source, node_path, prettier_cli_path, prettier_options, proc) ==
    LET cmd == Cmd(node_path, prettier_cli_path, prettier_options)
    IN IF proc.kind = "oserror"
       THEN [cmd |-> cmd, raised |-> Raises(proc), dialog |-> TRUE,
             error_message |-> ResetError(error_message),
             ret |-> None, warned |-> FALSE, scroll |-> <<-1, -1>>]
       ELSE IF proc.returncode # 0
       THEN [cmd |-> cmd, raised |-> FALSE, dialog |-> FALSE,
             error_message |-> format_error_message(proc.stderr, L(ToString(proc.returncode))),
             ret |-> None, warned |-> FALSE,
             scroll |-> ScrollTo(has_syntax_error(proc.stderr))]
       ELSE [cmd |-> cmd, raised |-> FALSE, dialog |-> FALSE,
             error_message |-> ResetError(error_message), ret |-> proc.stdout, warned |-> proc.stderr # <<>>, scroll |-> <<-1, -1>>]


\* ---------------------------------------------------------------- run

\* The status bar messages (st_status_message).
MsgSaveCanceled == "Save canceled."
MsgTooBig == "Maximum file size reached."
MsgNoCli ==
    "Error\n\nCommand not found: 'prettier'\n\nEnsure 'prettier' is installed in your environment PATH, or manually specify an absolute path in your 'JsPrettier.sublime-settings' file and the 'prettier_cli_path' setting."
MsgNothingFile == "Nothing to format in file."
MsgNothingSel == "Nothing to format in selection."
MsgFileFormatted == "File formatted."
MsgFileAlready == "File already formatted."
MsgSelFormatted == "Selection(s) formatted."
MsgSelAlready == "Selection(s) already formatted."
MsgFailed == "Format failed! Open the console window to inspect errors."

EmptyContent == L("Empty content returned to stdout")

\* JsPrettierCommand.has_error of a value of _error_message.
has_errorNever(message) == FALSE
has_error(message) == Truthy(message)

\* exceeds_max_file_size_limit(source_file)
exceeds_max_file_size_limit ==
    IF settings.max_file_size_limit = -1 THEN FALSE
    ELSE env.file_size > settings.max_file_size_limit

\* os.path.exists(path)
exists(path) == path \in env.exists

\* run's choice of prettier_config_path.
PrettierConfigPath(save_file, auto_format_prettier_config_path, has_no_config_defined) ==
    IF has_no_config_defined THEN None
    ELSE LET first == IF save_file /\ Truthy(auto_format_prettier_config_path)
                         /\ exists(auto_format_prettier_config_path)
                      THEN auto_format_prettier_config_path ELSE None
             custom_prettier_config == get_cli_arg_value(settings.additional_cli_args, L("--config"))
             second == IF ~Truthy(first)
                       THEN IF Truthy(custom_prettier_config) /\ ~exists(custom_prettier_config)
                            THEN custom_prettier_config ELSE first
                       ELSE first
         IN IF ~Truthy(second) THEN env.resolved_config ELSE second

\* The options run computes before it formats anything.
RunOptions(save_file, auto_format_prettier_config_path) ==
    LET parsed_additional_cli_args == parse_additional_cli_args(settings.additional_cli_args)
        has_custom_config_defined == Count(parsed_additional_cli_args, L("--config")) > 0
        has_no_config_defined == Count(parsed_additional_cli_args, L("--no-config")) > 0
        has_config_precedence_defined ==
            Count(parsed_additional_cli_args, L("--config-precedence")) > 0
        prettier_config_path ==
            PrettierConfigPath(save_file, auto_format_prettier_config_path, has_no_config_defined)
        prettier_ignore_filepath ==
            IF ~(Count(parsed_additional_cli_args, L("--ignore-path")) > 0)
            THEN env.ignore_path ELSE None
    IN parse_prettier_options(parsed_additional_cli_args, prettier_config_path,
                              has_custom_config_defined, has_no_config_defined,
                              has_config_precedence_defined, prettier_ignore_filepath, file_name)

\* ensure_newline_at_eof(view, edit): whether a line break is inserted.
ensure_newline_at_eofNever(buf) == FALSE
ensure_newline_at_eof(buf) == size(buf) > 0 /\ buf[size(buf)] # "\n"
WithNewline(buf) == IF ensure_newline_at_eof(buf) THEN Append(buf, "\n") ELSE buf
WithNewlineSel(buf, s) ==
    IF ensure_newline_at_eof(buf) THEN AdjustSelInsertEnd(s, size(buf), <<"\n">>) ELSE s

\* What the prettier process did, as the operating system saw it.
ProcResult(proc) ==
    IF proc.kind = "oserror" THEN "oserror"
    ELSE IF proc.returncode # 0 THEN "exit"
    ELSE IF is_str_empty_or_whitespace_only(proc.stdout) THEN "empty"
    ELSE "ok"

\* What an invocation has done so far, as it starts; prev tells whether the
\* invocation before it formatted the whole file with success. shown and dialogs
\* count st_status_message and sublime.error_message; resumed tells that the
\* run which asked for the save went on after it (see Resumed).
NoPrev == FALSE
FormattedFile(i) == i.mode = "file" /\ i.outcome \in {"formatted", "already"}
NewInv(via, save_file, auto_format_prettier_config_path, prev) ==
    [via |-> via, save_file |-> save_file, auto |-> auto_format_prettier_config_path,
     prev |-> prev,
     mode |-> "none", outcome |-> "running", buf0 |-> buffer, sel0 |-> sel,
     err0 |-> error_message, calls |-> <<>>, cmd |-> <<>>, shown |-> <<>>, console |-> 0,
     dialogs |-> 0, resumed |-> FALSE]

\* The state run leaves: the fields that an invocation can change.
Effect(buf, s, view, message, i) ==
    [buffer |-> buf, sel |-> s, viewport |-> view, error_message |-> message, inv |-> i]

Show(i, msg) == [i EXCEPT !.shown = Append(@, msg)]

\* The record of one call of format_code on region n (0: the whole file): the
\* command line, what the process did, the buffer and the messages as the call
\* was made, and the text run then wrote over the region, if it did.
Called(i, n, r, proc) ==
    [i EXCEPT !.cmd = r.cmd,
              !.dialogs = IF r.dialog THEN @ + 1 ELSE @,
              !.calls = Append(@, [region |-> n, result |-> ProcResult(proc), buf |-> buffer,
                                   nshown |-> Len(i.shown), replaced |-> FALSE,
                                   text |-> <<>>])]
Replaced(i, text) ==
    [i EXCEPT !.calls[Len(i.calls)].replaced = TRUE, !.calls[Len(i.calls)].text = text]

\* The checks run makes on what format_code returned (lines 241, 248 and 287,
\* 294): the call is a failure when has_error holds or nothing but white space
\* came back.
FailedUnlessEmpty(r) == has_error(r.error_message)
Failed(r) == has_error(r.error_message) \/ is_str_empty_or_whitespace_only(r.ret)

\* What follows a call of format_code that did not succeed, in either path: a
\* non-zero exit and an empty stdout end run with the failure message.
FailureEffect(i, r) ==
    IF has_error(r.error_message)
    THEN Effect(buffer, sel, IF r.scroll # <<-1, -1>> THEN r.scroll ELSE viewport,
                r.error_message,
                [Show(i, MsgFailed) EXCEPT !.console = @ + 1, !.outcome = "failed"])
    ELSE Effect(buffer, sel, viewport, EmptyContent,
                [Show(i, MsgFailed) EXCEPT !.outcome = "empty"])

\* OSError leaves format_code, and run with it.
RaisedEffect(i, r) ==
    Effect(buffer, sel, viewport, r.error_message, [i EXCEPT !.outcome = "raised"])

\* The whole-file path of run (lines 234-273).
FormatFile(i0, node_path, prettier_cli_path, prettier_options, proc) ==
    LET region == <<0, size(buffer)>>
        source == substr(buffer, region)
        r == format_code(source, node_path, prettier_cli_path, prettier_options, proc)
        i == Called([i0 EXCEPT !.mode = "file"], 0, r, proc)
        transformed == trim_trailing_ws_and_lines(r.ret)
        replaced == replace(buffer, region, transformed)
        replacedSel == AdjustSel(sel, region, transformed)
    IN IF is_str_empty_or_whitespace_only(source)
       THEN Effect(buffer, sel, viewport, error_message,
                   [Show(i0, MsgNothingFile) EXCEPT !.mode = "file", !.outcome = "nothing"])
       ELSE IF r.raised THEN RaisedEffect(i, r)
       ELSE IF Failed(r) THEN FailureEffect(i, r)
       ELSE IF Truthy(transformed) /\ transformed = trim_trailing_ws_and_lines(source)
       THEN IF ensure_newline_at_eof(buffer)
            THEN Effect(WithNewline(buffer), WithNewlineSel(buffer, sel), viewport,
                        r.error_message,
                        [Show(i, MsgFileFormatted) EXCEPT !.outcome = "formatted"])
            ELSE Effect(buffer, sel, viewport, r.error_message,
                        [Show(i, MsgFileAlready) EXCEPT !.outcome = "already"])
       ELSE Effect(WithNewline(replaced), WithNewlineSel(replaced, replacedSel), viewport,
                   r.error_message,
                   [Show(Replaced(i, transformed), MsgFileFormatted)
                       EXCEPT !.outcome = "formatted"])

\* One turn of run's loop over view.sel() (lines 277-303), at region n.
FormatSelection(i0, n, node_path, prettier_cli_path, prettier_options, proc) ==
    LET region == sel[n]
        source == substr(buffer, region)
        r == format_code(source, node_path, prettier_cli_path, prettier_options, proc)
        i == Called(i0, n, r, proc)
        transformed == trim_trailing_ws_and_lines(r.ret)
    IN IF empty(region) THEN Effect(buffer, sel, viewport, error_message, i0)
       ELSE IF is_str_empty_or_whitespace_only(source)
       THEN Effect(buffer, sel, viewport, error_message, Show(i0, MsgNothingSel))
       ELSE IF r.raised THEN RaisedEffect(i, r)
       ELSE IF Failed(r) THEN FailureEffect(i, r)
       ELSE IF Truthy(transformed) /\ transformed = trim_trailing_ws_and_lines(source)
       THEN Effect(buffer, sel, viewport, r.error_message, Show(i, MsgSelAlready))
       ELSE Effect(replace(buffer, region, transformed), AdjustSel(sel, region, transformed),
                   viewport, r.error_message,
                   Show(Replaced(i, transformed), MsgSelFormatted))

\* run has returned, or an exception has left it (the return statements of
\* lines 243, 250, 289 and 296, and the raise of line 345).
EndsRunNever(i) == FALSE
EndsRun(i) == i.outcome # "running"

\* The loop `for region in view.sel()` of line 277 moves on to the next region.
NextRegionSame(idx) == idx
NextRegion(idx) == idx + 1

\* What Popen and communicate can do: fail to spawn, or run to an exit code.
\* Prettier writes another letter than the buffers start with, and line breaks.
OutChar == {"b", "\n"}
StdOuts == SeqsUpTo(OutChar, MaxOut)
\* A syntax error as prettier reports it, at line 12, column 5, and a second
\* line. The 2 of the line number is U+0662, ARABIC-INDIC DIGIT TWO.
SyntaxErrorOutput ==
    <<"x", ":", " ", "S", "y", "n", "t", "a", "x", "E", "r", "r", "o", "r", ":", " ", "m", " ", "(", "1", "\\u0662", ":", "5", ")", "\n", "y", " ", "(", "2", ":", "7", ")">>
StdErrs == {<<"b", "o", "o", "m">>}
ProcOutcomes ==
    {[kind |-> "oserror", returncode |-> 0, stdout |-> <<>>, stderr |-> <<>>]}
    \cup [kind : {"exit"}, returncode : {0}, stdout : StdOuts \cup {<<"\r", "\n">>}, stderr : {<<>>}]
    \cup [kind : {"exit"}, returncode : {0}, stdout : {<<"a">>}, stderr : StdErrs]
    \cup [kind : {"exit"}, returncode : {1}, stdout : {<<>>}, stderr : StdErrs]

\* The prettier process as the environment gives it: any of env.procs, or,
\* where the environment fixes a formatter (a function of the text on stdin),
\* exit code 0 with the formatter's output. A text outside the formatter's
\* table comes back as it is.
Format(source) ==
    IF source \in DOMAIN env.formatter THEN env.formatter[source] ELSE source
Procs(source) ==
    IF DOMAIN env.formatter = {} THEN env.procs
    ELSE {[kind |-> "exit", returncode |-> 0, stdout |-> Format(source), stderr |-> <<>>]}

NoLoc == [options |-> <<>>, node_path |-> None, prettier_cli_path |-> None, idx |-> 0]

Apply(e) ==
    /\ Len(e.buffer) <= MaxBuf
    /\ buffer' = e.buffer
    /\ sel' = e.sel
    /\ viewport' = e.viewport
    /\ error_message' = e.error_message
    /\ inv' = e.inv

\* The name the user gives a view in the save dialog.
SavedAs == <<"a", ".", "j", "s">>

\* Lines 168-172: view.run_command('save') of line 161 has returned, and the run
\* that made the call goes on: its source_file_path is None as before, so it
\* shows 'Save canceled.' and returns. What the save did in between (the
\* command that on_pre_save ran, if it ran one) stays on the record.
Resumed(i) ==
    [Show(i, MsgSaveCanceled) EXCEPT !.resumed = TRUE,
                                     !.outcome = IF @ = "running" THEN "save_canceled" ELSE @]

\* run returns; where it ran inside the save of another run, that run goes on.
Return(e) ==
    /\ Apply(IF pc = "save" THEN [e EXCEPT !.inv = Resumed(e.inv)] ELSE e)
    /\ pc' = "idle"

\* JsPrettierCommand.run(edit, save_file, auto_format_prettier_config_path), up
\* to its return, or, with a selection to format, up to the loop over
\* view.sel(), or, with a view the user then names, up to the pre-save event of
\* view.run_command('save').
run(via, save_file, auto_format_prettier_config_path) ==
    LET i == NewInv(via, save_file, auto_format_prettier_config_path,
                    FormattedFile(inv))
    IN /\ pc \in {"idle", "save"}
       /\ UNCHANGED <<scope0, scopeSel, settings, env>>
       /\ IF file_name = None
          THEN IF ~env.is_st3
               THEN \* lines 163-166: the error dialog, and run returns
                    /\ Return(Effect(buffer, sel, viewport, error_message,
                                     [i EXCEPT !.dialogs = @ + 1, !.outcome = "must_save"]))
                    /\ UNCHANGED <<file_name, cwd, loc>>
               ELSE \* lines 156-161: the dialog offers to save the view; saved is
                    \* None when the user declines, or leaves the save dialog
                    \E saved \in {None, SavedAs} :
                        IF saved = None
                        THEN /\ Return(Effect(buffer, sel, viewport, error_message,
                                              [Show(i, MsgSaveCanceled)
                                                  EXCEPT !.outcome = "save_canceled"]))
                             /\ UNCHANGED <<file_name, cwd, loc>>
                        ELSE /\ file_name' = saved
                             /\ pc' = "save"
                             /\ Apply(Effect(buffer, sel, viewport, error_message, i))
                             /\ UNCHANGED <<cwd, loc>>
          ELSE IF exceeds_max_file_size_limit
          THEN /\ Return(Effect(buffer, sel, viewport, error_message,
                                [Show(i, MsgTooBig) EXCEPT !.outcome = "too_big"]))
               /\ UNCHANGED <<file_name, cwd, loc>>
          ELSE IF env.cli_path = None
          THEN /\ cwd' = "project"
               /\ Return(Effect(buffer, sel, viewport, error_message,
                                [Show(i, MsgNoCli) EXCEPT !.outcome = "no_cli"]))
               /\ UNCHANGED <<file_name, loc>>
          ELSE IF ~has_selection(sel) \/ save_file
          THEN /\ cwd' = "project"
               /\ \E proc \in Procs(substr(buffer, <<0, size(buffer)>>)) :
                    Return(FormatFile(i, settings.node_path, env.cli_path,
                                      RunOptions(save_file, auto_format_prettier_config_path),
                                      proc))
               /\ UNCHANGED <<file_name, loc>>
          ELSE /\ cwd' = "project"
               /\ pc' = "sel"
               /\ loc' = [options |-> RunOptions(save_file, auto_format_prettier_config_path),
                          node_path |-> settings.node_path,
                          prettier_cli_path |-> env.cli_path, idx |-> 1]
               /\ Apply(Effect(buffer, sel, viewport, error_message, [i EXCEPT !.mode = "sel"]))
               /\ UNCHANGED file_name

\* The user (a key binding, a menu entry) invokes the command; Sublime Text runs
\* it only while is_enabled() holds.
RunCommand ==
    /\ pc = "idle"
    /\ should_show_plugin
    /\ presave' = [outcome |-> "none", buf |-> buffer, auto |-> None]
    /\ \E save_file \in BOOLEAN : run("user", save_file, None)

\* One turn of the loop `for region in view.sel()`, and the loop's end after
\* the last region.
SelectionStep ==
    /\ pc = "sel"
    /\ \E proc \in Procs(substr(buffer, sel[loc.idx])) :
         LET e == FormatSelection(inv, loc.idx, loc.node_path, loc.prettier_cli_path,
                                  loc.options, proc)
             ended == EndsRun(e.inv)
             last == loc.idx >= Len(e.sel)
         IN /\ Apply(IF ~ended /\ last THEN [e EXCEPT !.inv.outcome = "done"] ELSE e)
            /\ IF ended \/ last
               THEN pc' = "idle" /\ loc' = NoLoc
               ELSE pc' = "sel" /\ loc' = [loc EXCEPT !.idx = NextRegion(@)]
    /\ UNCHANGED <<file_name, scope0, scopeSel, settings, env, cwd, presave>>


\* ---------------------------------------------------------------- on_pre_save

\* os.path.normpath (POSIX) of a pattern.
RECURSIVE Components(_, _)
Components(path, comp) ==
    IF path = <<>> THEN <<comp>>
    ELSE IF Head(path) = "/" THEN <<comp>> \o Components(Tail(path), <<>>)
    ELSE Components(Tail(path), Append(comp, Head(path)))
RECURSIVE NormComponents(_, _, _)
NormComponents(comps, new_comps, initial_slashes) ==
    IF comps = <<>> THEN new_comps
    ELSE LET comp == Head(comps)
         IN IF comp = <<>> \/ comp = <<".">>
            THEN NormComponents(Tail(comps), new_comps, initial_slashes)
            ELSE IF \/ comp # <<".", ".">>
                    \/ (initial_slashes = 0 /\ new_comps = <<>>)
                    \/ (new_comps # <<>> /\ new_comps[Len(new_comps)] = <<".", ".">>)
            THEN NormComponents(Tail(comps), Append(new_comps, comp), initial_slashes)
            ELSE IF new_comps # <<>>
            THEN NormComponents(Tail(comps), SubSeq(new_comps, 1, Len(new_comps) - 1),
                                initial_slashes)
            ELSE NormComponents(Tail(comps), new_comps, initial_slashes)
RECURSIVE Join(_)
Join(comps) ==
    IF comps = <<>> THEN <<>>
    ELSE IF Len(comps) = 1 THEN Head(comps)
    ELSE Head(comps) \o <<"/">> \o Join(Tail(comps))
normpath(path) ==
    IF path = <<>> THEN <<".">>
    ELSE LET initial_slashes ==
                 IF ~StartsWith(path, <<"/">>) THEN 0
                 ELSE IF StartsWith(path, <<"/", "/">>) /\ ~StartsWith(path, <<"/", "/", "/">>)
                      THEN 2 ELSE 1
             joined == Join(NormComponents(Components(path, <<>>), <<>>, initial_slashes))
             result == [k \in 1..initial_slashes |-> "/"] \o joined
         IN IF result = <<>> THEN <<".">> ELSE result

\* re.match(fnmatch.translate(pattern), filename): the whole name matches the
\* pattern, in which '*' stands for any run of characters, '?' for any one
\* character, '[seq]' for one character of seq and '[!seq]' for one character
\* not in seq; in seq, 'x-y' is the range of characters from x to y, and an
\* 'x-y' with y before x is no character at all. A '[' that
\* no ']' closes stands for itself, and a ']' right after '[' or '[!' belongs
\* to seq.

\* x-y in seq: the characters from x to y by code point.
InRange(c, x, y) == Ord(x) <= Ord(c) /\ Ord(c) <= Ord(y)

\* c is a character of seq.
RECURSIVE InClass(_, _)
InClass(c, stuff) ==
    IF stuff = <<>> THEN FALSE
    ELSE IF Len(stuff) >= 3 /\ stuff[2] = "-"
    THEN InRange(c, stuff[1], stuff[3]) \/ InClass(c, SubSeq(stuff, 4, Len(stuff)))
    ELSE c = Head(stuff) \/ InClass(c, Tail(stuff))

\* The position of the ']' that closes the '[' a pattern starts with, or 0.
ClassEnd(pattern) ==
    LET n == Len(pattern)
        j1 == IF 2 <= n /\ pattern[2] = "!" THEN 3 ELSE 2
        j2 == IF j1 <= n /\ pattern[j1] = "]" THEN j1 + 1 ELSE j1
        closing == {j \in j2..n : pattern[j] = "]"}
    IN IF closing = {} THEN 0 ELSE CHOOSE j \in closing : \A k \in closing : j <= k

RECURSIVE fnmatch(_, _)
fnmatch(pattern, name) ==
    IF pattern = <<>> THEN name = <<>>
    ELSE IF Head(pattern) = "*"
    THEN fnmatch(Tail(pattern), name) \/ (name # <<>> /\ fnmatch(pattern, Tail(name)))
    ELSE IF Head(pattern) = "?"
    THEN name # <<>> /\ fnmatch(Tail(pattern), Tail(name))
    ELSE IF Head(pattern) = "[" /\ ClassEnd(pattern) # 0
    THEN LET j == ClassEnd(pattern)
             negated == pattern[2] = "!"
             stuff == SubSeq(pattern, IF negated THEN 3 ELSE 2, j - 1)
         IN /\ name # <<>>
            /\ InClass(Head(name), stuff) # negated
            /\ fnmatch(SubSeq(pattern, j + 1, Len(pattern)), Tail(name))
    ELSE name # <<>> /\ Head(name) = Head(pattern) /\ fnmatch(Tail(pattern), Tail(name))

\* CommandOnSave.is_excluded(view): True when the file is NOT excluded.
NoneMatchesFirst(regmatch_ef, filename) ==
    regmatch_ef = <<>> \/ ~fnmatch(Head(regmatch_ef), filename)
RECURSIVE NoneMatches(_, _)
NoneMatches(regmatch_ef, filename) ==
    IF regmatch_ef = <<>> THEN TRUE
    ELSE IF fnmatch(Head(regmatch_ef), filename) THEN FALSE
    ELSE NoneMatches(Tail(regmatch_ef), filename)
is_excluded ==
    IF ~Truthy(file_name) THEN FALSE
    ELSE LET excludes == settings.auto_format_on_save_excludes
         IN NoneMatches([k \in 1..Len(excludes) |-> normpath(excludes[k])], file_name)

is_allowed == is_file_auto_formattable
is_enabled == settings.auto_format_on_save

\* get_cli_arg_value(self.get_additional_cli_args, '--config') on line 587 is
\* handed the method itself, not the dict it returns: whatever the helper does
\* with a value that is no dict, it finds no key in it. It returns its default,
\* None, or it raises.
GetCliArgValueOfMethod == {"default", "raises"}

PreSave(outcome, auto) == [outcome |-> outcome, buf |-> buffer, auto |-> auto]

\* on_pre_save returns and the command has not run; where the event came from
\* the save of a run, that run goes on.
NotRun ==
    /\ IF pc = "save" THEN inv' = Resumed(inv) /\ pc' = "idle" ELSE UNCHANGED <<inv, pc>>
    /\ UNCHANGED <<file_name, scope0, scopeSel, buffer, sel, viewport, settings, env,
                   cwd, error_message, loc>>

\* view.run_command(PLUGIN_CMD_NAME, {save_file, auto_format_prettier_config_path})
run_command(save_file, auto_format_prettier_config_path) ==
    IF should_show_plugin
    THEN /\ run("save", save_file, auto_format_prettier_config_path)
         /\ presave' = PreSave("invoked", auto_format_prettier_config_path)
    ELSE /\ presave' = PreSave("disabled", auto_format_prettier_config_path)
         /\ NotRun

Skip(outcome) ==
    /\ presave' = PreSave(outcome, None)
    /\ NotRun

\* CommandOnSave.on_pre_save(view): the user saves the view, or run does (line
\* 161); an exception that leaves the handler is caught by the editor.
on_pre_save ==
    /\ pc \in {"idle", "save"}
    /\ IF is_allowed /\ is_enabled /\ is_excluded
       THEN IF settings.auto_format_on_save_requires_prettier_config
            THEN \E lookup \in GetCliArgValueOfMethod :
                   IF lookup = "raises" THEN Skip("raised")
                   ELSE LET found == None
                            prettier_config_path ==
                                IF ~Truthy(found) \/ ~exists(found)
                                THEN env.resolved_config ELSE found
                        IN IF Truthy(prettier_config_path) /\ exists(prettier_config_path)
                           THEN run_command(TRUE, prettier_config_path)
                           ELSE Skip("no_config")
            ELSE run_command(TRUE, None)
       ELSE Skip("skipped")

\* ---------------------------------------------------------------- initial states

\* The most regions a selection holds.
MaxSel == 2

Regions(n) == {r \in (0..n) \X (0..n) : r[1] <= r[2]}
\* view.sel() keeps its regions in order and apart; a caret that touches
\* another region is merged into it.
Sels(n) ==
    {s \in UNION {[1..k -> Regions(n)] : k \in 1..MaxSel} :
        \A k \in 1..(Len(s) - 1) :
            \/ s[k][2] < s[k + 1][1]
            \/ s[k][2] = s[k + 1][1] /\ ~empty(s[k]) /\ ~empty(s[k + 1])}

JsFile == <<"a", ".", "j", "s">>
TxtFile == <<"a", ".", "t", "x", "t">>
JsScope == Scope.source_js
JsonScope == Scope.source_json
ScopePlain ==
    <<"t", "e", "x", "t", ".", "p", "l", "a", "i", "n">>
ConfigA == L("/proj/.prettierrc")
ConfigB == L("/custom/prettier.json")
IgnoreA == L("/proj/.prettierignore")

NoOptions == [o \in OptionNames |-> None]
BaseSettings ==
    [node_path |-> L("/usr/bin/node"), tab_size |-> {4}, translate_tabs_to_spaces |-> {TRUE},
     additional_cli_args |-> <<>>, prettier_options |-> NoOptions,
     max_file_size_limit |-> -1, allow_inline_formatting |-> FALSE,
     auto_format_on_save |-> TRUE, auto_format_on_save_excludes |-> <<>>,
     auto_format_on_save_requires_prettier_config |-> FALSE]
BaseEnv ==
    [exists |-> {ConfigA}, resolved_config |-> ConfigA, cli_path |-> L("/usr/bin/prettier"),
     ignore_path |-> None, file_size |-> 2, procs |-> ProcOutcomes, formatter |-> <<>>,
     is_st3 |-> TRUE]

InitCommand ==
    /\ viewport = <<0, 0>>
    /\ cwd = "start"
    /\ error_message = None
    /\ pc = "idle"
    /\ loc = NoLoc
    /\ inv = [NewInv("none", FALSE, None, NoPrev) EXCEPT !.outcome = "none"]
    /\ presave = PreSave("none", None)

\* The view and settings the run of the command is explored from: every short
\* buffer and every selection of it, in a JavaScript file; and the same with no
\* file name, a file over the size limit, and no prettier found.
RunConfigs ==
    { <<JsFile, BaseSettings, BaseEnv>>,
      <<None, BaseSettings, BaseEnv>>,
      <<None, BaseSettings, [BaseEnv EXCEPT !.is_st3 = FALSE]>>,
      <<JsFile, [BaseSettings EXCEPT !.max_file_size_limit = 1], BaseEnv>>,
      <<JsFile, BaseSettings, [BaseEnv EXCEPT !.cli_path = None]>> }

Init ==
    /\ \E c \in RunConfigs : file_name = c[1] /\ settings = c[2] /\ env = c[3]
    /\ scope0 = JsScope
    /\ scopeSel = JsScope
    /\ buffer \in SeqsUpTo(Char, MaxBuf)
    /\ sel \in Sels(Len(buffer))
    /\ InitCommand

Next == RunCommand \/ SelectionStep \/ on_pre_save

Spec == Init /\ [][Next]_vars


\* Outside the specification of run itself the prettier process does one of two
\* things: it formats to "b", or it fails with a syntax error.
FewProcs ==
    { [kind |-> "exit", returncode |-> 0, stdout |-> <<"b", "\n">>, stderr |-> <<>>],
      [kind |-> "exit", returncode |-> 1, stdout |-> <<>>, stderr |-> SyntaxErrorOutput] }
OptEnv == [BaseEnv EXCEPT !.procs = FewProcs]

\* The pre-save event is explored from every combination of what its gate
\* reads (the file name, auto_format_on_save, the exclude patterns), and, with
\* the gate open, of what auto_format_on_save_requires_prettier_config reads;
\* and from a text file under a JSON syntax and under none, which only the
\* scope name makes the command available for.
MaxExcludes == 2
SaveFiles ==
    { None, JsFile, <<"l", "i", "b", "/", "a", ".", "j", "s">>,
      <<"a", ".", "m", "i", "n", ".", "j", "s">>, TxtFile }
ExcludePatterns ==
    { <<"*", ".", "m", "i", "n", ".", "j", "s">>, <<"l", "i", "b", "/", "/", "*">>,
      <<"a", ".", "j", "s", "/">>, <<"?", ".", "j", "s">>, <<"[", "!", "b", "-", "\\xe9", "]", "*", ".", "j", "s">> }
SaveGateSettings ==
    { [BaseSettings EXCEPT !.auto_format_on_save = on, !.auto_format_on_save_excludes = ex,
                           !.auto_format_on_save_requires_prettier_config = rq]
        : on \in BOOLEAN, ex \in SeqsUpTo(ExcludePatterns, MaxExcludes), rq \in {FALSE} }
SaveConfigSettings ==
    { [BaseSettings EXCEPT !.additional_cli_args = args,
                           !.auto_format_on_save_requires_prettier_config = TRUE]
        : args \in {<<>>, << <<L("--config"), ConfigB>> >>} }
SaveConfigEnvs ==
    { [OptEnv EXCEPT !.exists = ex, !.resolved_config = rc]
        : ex \in SUBSET {ConfigA, ConfigB}, rc \in {None, ConfigA} }
SaveConfigs ==
    {<<f, st, OptEnv, JsScope>> : f \in SaveFiles, st \in SaveGateSettings}
    \cup {<<f, st, e, JsScope>> : f \in {JsFile, TxtFile}, st \in SaveConfigSettings,
                                  e \in SaveConfigEnvs}
    \cup {<<TxtFile, BaseSettings, OptEnv, s>> : s \in {JsonScope, ScopePlain}}

InitSave ==
    /\ \E c \in SaveConfigs :
         file_name = c[1] /\ settings = c[2] /\ env = c[3] /\ scope0 = c[4] /\ scopeSel = c[4]
    /\ buffer = <<"a">>
    /\ sel = << <<0, 1>> >>
    /\ InitCommand

SpecSave == InitSave /\ [][Next]_vars

\* The command line is explored from every combination of file name and scope
\* the detectors read, and of the settings the options are built from; the
\* prettier process formats, or fails, so that one invocation follows another.
OptFiles ==
    { <<"a">> \o e : e \in {Ext.js, Ext.css, Ext.scss, Ext.ts, Ext.tsx, Ext.json, Ext.gql,
                             Ext.md, Ext.vue, Ext.htm, Ext.html} }
OptScopes0 ==
    { Scope.source_js, Scope.source_tsx, Scope.source_json,
      Scope.text_html \o <<".", "b", "a", "s", "i", "c">>, Scope.text_html_markdown, Scope.text_html_vue,
      ScopePlain }
OptScopesSel ==
    { Scope.source_js, Scope.source_json, Scope.source_css, Scope.source_less,
      Scope.text_html \o <<".", "b", "a", "s", "i", "c", " ">> \o Scope.meta_selector_css, ScopePlain }
ParserSettings == {None, <<>>, <<"flow">>, <<" ", "flow">>, <<"\f", "flow", "\r">>}
OptSettings == [BaseSettings EXCEPT !.allow_inline_formatting = TRUE]
UserArgs ==
    { <<>>,
      << <<L("--config"), ConfigB>> >>,
      << <<L("--no-config"), <<>> >> >>,
      << <<L("--no-config"), <<>> >>, <<L("--config"), ConfigB>> >>,
      << <<L("--ignore-path"), L("/my/ignore")>>, <<L("--loglevel"), L("debug")>> >>,
      << <<L("--parser"), L("babel")>>, <<L("--config-precedence"), L("prefer-file")>> >>,
      << <<<<" ", "--semi">>, <<"True", " ">> >> >> }
DetectorConfigs ==
    { <<f, s0, ss, [OptSettings EXCEPT !.prettier_options["parser"] = pr[1]],
        [OptEnv EXCEPT !.resolved_config = pr[2]]>>
        : f \in OptFiles, s0 \in OptScopes0, ss \in OptScopesSel,
          pr \in {<<None, None>>, <<L("flow"), None>>, <<L("flow"), ConfigA>>} }
LayoutConfigs ==
    { <<f, Scope.source_js, Scope.source_js_embedded_html,
        [OptSettings EXCEPT !.node_path = np, !.tab_size = ts, !.translate_tabs_to_spaces = tt,
                            !.additional_cli_args = args, !.prettier_options["parser"] = ps],
        [OptEnv EXCEPT !.resolved_config = rc, !.ignore_path = ig]>>
        : f \in {JsFile, <<"a">> \o Ext.html},
          np \in {None, <<>>, L("/usr/bin/node")}, ts \in {{}, {8}}, tt \in {{}, {FALSE}},
          args \in UserArgs, ps \in {None}, rc \in {None, ConfigA},
          ig \in {None, IgnoreA} }
ParserConfigs ==
    { <<JsFile, JsScope, JsScope,
        [OptSettings EXCEPT !.additional_cli_args = args, !.prettier_options["parser"] = ps],
        [OptEnv EXCEPT !.resolved_config = rc]>>
        : args \in {<<>>, << <<L("--config"), ConfigB>> >>}, ps \in ParserSettings,
          rc \in {None, ConfigA} }

InitOpts ==
    /\ \E c \in DetectorConfigs \cup LayoutConfigs \cup ParserConfigs :
         /\ file_name = c[1]
         /\ scope0 = c[2]
         /\ scopeSel = c[3]
         /\ settings = c[4]
         /\ env = c[5]
    /\ buffer = <<"a">>
    /\ sel = << <<0, 1>> >>
    /\ InitCommand

SpecOpts == InitOpts /\ [][Next]_vars

\* Formatting twice is explored with prettier as a function of its input: every
\* idempotent formatter over the texts a letter and a line break make, from
\* each of these texts, with a caret and with the first character selected.
FormatterTexts == { <<"a">>, <<"a", "\n">>, <<"b">>, <<"b", "\n">> }
Idempotent(f) == \A x \in DOMAIN f : f[x] \in DOMAIN f /\ f[f[x]] = f[x]
IdempotentFormatters == {f \in [FormatterTexts -> FormatterTexts] : Idempotent(f)}

InitIdem ==
    /\ file_name = JsFile
    /\ scope0 = JsScope
    /\ scopeSel = JsScope
    /\ settings = BaseSettings
    /\ \E f \in IdempotentFormatters : env = [OptEnv EXCEPT !.formatter = f]
    /\ buffer \in FormatterTexts
    /\ sel \in {<< <<0, 0>> >>, << <<0, 1>> >>}
    /\ InitCommand

SpecIdem == InitIdem /\ [][Next]_vars

\* ---------------------------------------------------------------- properties

HasCall == inv.calls # <<>>
LastCall == inv.calls[Len(inv.calls)]
\* The text of region n (0: the whole file) of a buffer under a selection.
RegionText(buf, s, n) == IF n = 0 THEN buf ELSE substr(buf, s[n])
\* The status messages of the invocation on record: where the command ran
\* inside the save of another run, the 'Save canceled.' which that run showed
\* once the save had returned is not one of them.
RunShown ==
    IF inv.resumed /\ inv.via = "save" THEN SubSeq(inv.shown, 1, Len(inv.shown) - 1)
    ELSE inv.shown
LastShown == IF RunShown = <<>> THEN "" ELSE RunShown[Len(RunShown)]
FormattedMsgs == {MsgFileFormatted, MsgSelFormatted}
ShownFormatted == \E k \in 1..Len(RunShown) : RunShown[k] \in FormattedMsgs

\* C1: when the prettier process of an invocation exits with a non-zero code,
\* the error is printed to the console (format_console_error) and the failure
\* message is put on the status bar, the message is kept in _error_message, and
\* the region handed to prettier keeps the text it had before the invocation:
\* nothing is written over it and no line break is inserted.
C1_NonZeroExitSurfaced ==
    (HasCall /\ LastCall.result = "exit") =>
        /\ inv.console = 1
        /\ LastShown = MsgFailed
        /\ Len(RunShown) = LastCall.nshown + 1
        /\ has_error(error_message)
        /\ inv.outcome = "failed"
        /\ ~LastCall.replaced
        /\ buffer = LastCall.buf
        /\ RegionText(buffer, sel, LastCall.region)
             = RegionText(inv.buf0, inv.sel0, LastCall.region)

\* A non-zero exit on the second region of a selection whose first region was replaced.
C1_Witness ==
    /\ Len(inv.calls) = 2
    /\ inv.calls[1].replaced
    /\ LastCall.result = "exit"
    /\ buffer # inv.buf0

\* C2, as claimed: exit code 0 with nothing but white space on stdout sets the
\* message 'Empty content returned to stdout', shows the failure message, and
\* leaves the buffer as it was before the invocation, in both paths.
C2_EmptyStdoutBufferUntouched ==
    (HasCall /\ LastCall.result = "empty") =>
        /\ error_message = EmptyContent
        /\ LastShown = MsgFailed
        /\ buffer = inv.buf0

\* C2, amended: exit code 0 with nothing but white space on stdout sets the
\* message 'Empty content returned to stdout' and shows the failure message;
\* the call writes nothing (the buffer is as it was when the call was made and
\* its region keeps the text it had before the invocation). In the whole-file
\* path the buffer is as before the invocation; in the per-selection path the
\* regions replaced earlier in the invocation stay replaced.
C2_EmptyStdoutIsFailure ==
    (HasCall /\ LastCall.result = "empty") =>
        /\ error_message = EmptyContent
        /\ LastShown = MsgFailed
        /\ Len(RunShown) = LastCall.nshown + 1
        /\ inv.outcome = "empty"
        /\ inv.console = 0
        /\ ~LastCall.replaced
        /\ buffer = LastCall.buf
        /\ RegionText(buffer, sel, LastCall.region)
             = RegionText(inv.buf0, inv.sel0, LastCall.region)
        /\ (inv.mode = "file" => buffer = inv.buf0)

\* Empty output for the second region of a selection whose first region was replaced.
C2_Witness ==
    /\ Len(inv.calls) = 2
    /\ inv.calls[1].replaced
    /\ LastCall.result = "empty"
    /\ error_message = EmptyContent

\* C3, as claimed: the message of an earlier invocation is gone as run starts,
\* so an invocation that returns without a failure of its own leaves has_error false.
C3_ClearedAtStartOfRun ==
    (pc = "idle" /\ inv.outcome \notin {"none", "failed", "empty"})
        => ~has_error(error_message)

\* C3, amended: the message is cleared at the start of each call of
\* format_code, not of run. An invocation that has not called format_code
\* leaves the message as the invocation before left it; once format_code has
\* been called, has_error holds exactly when the last call failed (a non-zero
\* exit, or empty stdout).
C3_ClearedAtStartOfFormatCode ==
    inv.outcome # "none" =>
        IF ~HasCall THEN error_message = inv.err0
        ELSE has_error(error_message) <=> LastCall.result \in {"exit", "empty"}

\* An invocation that starts with the message of a failed one and formats without error.
C3_Witness ==
    /\ has_error(inv.err0)
    /\ HasCall
    /\ LastCall.result = "ok"
    /\ error_message = None

\* C4, as claimed: an invocation of run makes at most one call of prettier.
C4_AtMostOneCall == Len(inv.calls) <= 1

\* C4, amended: an invocation that formats the whole file makes at most one
\* call of prettier; an invocation that formats the selection makes at most one
\* call for each region that is not empty, in the order of the regions.
C4_OneCallPerRegion ==
    /\ inv.mode = "file" => Len(inv.calls) <= 1 /\ \A k \in 1..Len(inv.calls) : inv.calls[k].region = 0
    /\ inv.mode = "sel" =>
        /\ \A k \in 1..Len(inv.calls) :
              /\ inv.calls[k].region \in 1..Len(inv.sel0)
              /\ ~empty(inv.sel0[inv.calls[k].region])
        /\ \A j, k \in 1..Len(inv.calls) : j < k => inv.calls[j].region < inv.calls[k].region
    /\ inv.mode = "none" => inv.calls = <<>>

\* Two calls in one invocation, one for each of two selected regions.
C4_Witness ==
    /\ inv.mode = "sel"
    /\ Len(inv.calls) = 2
    /\ inv.calls[1].region = 1
    /\ inv.calls[2].region = 2

\* C5, as claimed: when the spawn raises OSError the dialog is shown and run
\* ends having replaced no text of the buffer and shown no '... formatted.' status.
C5_SpawnErrorNothingReplaced ==
    (HasCall /\ LastCall.result = "oserror") =>
        /\ inv.dialogs = 1
        /\ inv.outcome = "raised"
        /\ buffer = inv.buf0
        /\ ~ShownFormatted

\* C5, amended: when the spawn raises OSError the dialog is shown and the
\* exception ends run there: the call writes nothing and shows no status, and
\* nothing is formatted after it. In the whole-file path no text is replaced
\* and no status shown at all; in the per-selection path the regions replaced
\* before the failing spawn stay replaced, with their status shown.
C5_SpawnErrorEndsRun ==
    (HasCall /\ LastCall.result = "oserror") =>
        /\ inv.dialogs = 1
        /\ inv.outcome = "raised"
        /\ pc = "idle"
        /\ ~has_error(error_message)
        /\ ~LastCall.replaced
        /\ buffer = LastCall.buf
        /\ Len(RunShown) = LastCall.nshown
        /\ RegionText(buffer, sel, LastCall.region)
             = RegionText(inv.buf0, inv.sel0, LastCall.region)
        /\ (inv.mode = "file" => buffer = inv.buf0 /\ RunShown = <<>>)

\* OSError on the spawn for the second region, after the first was replaced.
C5_Witness ==
    /\ Len(inv.calls) = 2
    /\ inv.calls[1].replaced
    /\ LastCall.result = "oserror"
    /\ inv.outcome = "raised"

\* C6: a call that fails (a non-zero exit, or empty stdout) is the last thing
\* its invocation does: no call of prettier follows it, the buffer stays as it
\* was when the call was made, the regions after it keep the text they had
\* before the invocation, and the regions replaced before it keep the text
\* written over them.
C6_SingleShot ==
    \A k \in 1..Len(inv.calls) :
        inv.calls[k].result \in {"exit", "empty"} =>
            /\ k = Len(inv.calls)
            /\ pc = "idle"
            /\ inv.outcome \in {"failed", "empty"}
            /\ ~inv.calls[k].replaced
            /\ buffer = inv.calls[k].buf
            /\ inv.mode = "sel" =>
                 /\ \A m \in (inv.calls[k].region + 1)..Len(sel) :
                       substr(buffer, sel[m]) = substr(inv.buf0, inv.sel0[m])
                 /\ \A j \in 1..(k - 1) :
                       inv.calls[j].replaced =>
                           substr(buffer, sel[inv.calls[j].region]) = inv.calls[j].text

\* A failure on the first of two selected regions: the second, which has text
\* to format, is left alone.
C6_Witness ==
    /\ inv.mode = "sel"
    /\ Len(inv.calls) = 1
    /\ LastCall.region = 1
    /\ LastCall.result \in {"exit", "empty"}
    /\ Len(sel) = 2
    /\ ~is_str_empty_or_whitespace_only(substr(buffer, sel[2]))
    /\ pc = "idle"

\* What the last pre-save event read: the exclude patterns, and the '--config'
\* value of additional_cli_args.
Excludes == settings.auto_format_on_save_excludes
SomeExcludeMatches ==
    \E k \in 1..Len(Excludes) : fnmatch(normpath(Excludes[k]), file_name)
GateOpen ==
    /\ is_file_auto_formattable
    /\ settings.auto_format_on_save
    /\ Truthy(file_name)
    /\ ~SomeExcludeMatches

\* C7: on a pre-save event the command is invoked only if the file is
\* auto-formattable, 'auto_format_on_save' is on, the view has a file name and
\* the name matches none of the exclude patterns; when one of these fails the
\* command is not invoked and the buffer (and the command's error message) is
\* as it was before the event; and when the command is invoked, it is invoked
\* from the save with save_file = True.
C7_PreSaveGate ==
    presave.outcome # "none" =>
        /\ presave.outcome = "invoked" => GateOpen /\ inv.via = "save" /\ inv.save_file
        /\ ~GateOpen =>
              /\ presave.outcome = "skipped"
              /\ buffer = presave.buf
        /\ presave.outcome # "invoked" => buffer = presave.buf

\* A save that formats the buffer although two exclude patterns are set: neither matches.
C7_Witness ==
    /\ presave.outcome = "invoked"
    /\ Len(Excludes) = 2
    /\ inv.via = "save"
    /\ inv.save_file
    /\ buffer # presave.buf

\* The command line of the last call of prettier, taken apart: the options
\* after '--stdin', the user's own arguments at their end, and the part the
\* plugin generated before them.
UserOptions == parse_additional_cli_args(settings.additional_cli_args)
UserHas(flag) == \E k \in 1..Len(UserOptions) : UserOptions[k] = flag
StdinAt == CHOOSE k \in 1..Len(inv.cmd) : inv.cmd[k] = L("--stdin")
CmdOptions == SubSeq(inv.cmd, StdinAt + 1, Len(inv.cmd))
PluginPart == SubSeq(CmdOptions, 1, Len(CmdOptions) - Len(UserOptions))
Positions(list, flag) == {k \in 1..Len(list) : list[k] = flag}
\* The flag occurs once in the list, and the value follows it.
HasFlagValue(list, flag, value) ==
    /\ Cardinality(Positions(list, flag)) = 1
    /\ \A k \in Positions(list, flag) : k < Len(list) /\ list[k + 1] = value

\* The parser the claim names for the view: the first detector that matches.
ClaimedParser ==
    CASE is_css -> L("css")
      [] ~is_css /\ is_typescript -> L("typescript")
      [] ~is_css /\ ~is_typescript /\ is_json -> L("json")
      [] ~is_css /\ ~is_typescript /\ ~is_json /\ is_graphql -> L("graphql")
      [] ~is_css /\ ~is_typescript /\ ~is_json /\ ~is_graphql /\ is_markdown -> L("markdown")
      [] ~is_css /\ ~is_typescript /\ ~is_json /\ ~is_graphql /\ ~is_markdown /\ is_vue
           -> L("vue")
      [] OTHER -> None
\* The user's 'parser' setting, or the default of the mapping.
ParserSetting ==
    LET given == settings.prettier_options["parser"]
    IN IF given = None \/ given = <<>> THEN L("babel") ELSE Strip(given)
\* run resolved no config file (it looks for none when the user passes
\* '--no-config') and the user passes no '--config'.
NoConfigInPlay ==
    /\ ~UserHas(L("--config"))
    /\ UserHas(L("--no-config")) \/ env.resolved_config = None

\* C8: the command line of every call of prettier carries, in its
\* plugin-generated part, '--parser <type>' for the first matching detector in
\* the order css, typescript, json, graphql, markdown, vue, whatever the user's
\* 'parser' setting and whether or not a config file was resolved; when no
\* detector matches it carries '--parser' with the user's setting (or the
\* default) if no config file was resolved and the user gave no '--config',
\* and no '--parser' otherwise. It never carries more than one '--parser'.
C8_ParserChosen ==
    HasCall =>
        /\ Cardinality(Positions(PluginPart, L("--parser"))) <= 1
        /\ IF ClaimedParser # None
           THEN HasFlagValue(PluginPart, L("--parser"), ClaimedParser)
           ELSE IF NoConfigInPlay
           THEN HasFlagValue(PluginPart, L("--parser"), ParserSetting)
           ELSE Positions(PluginPart, L("--parser")) = {}

\* A file that is both typescript (by name) and json (by scope), with a parser
\* setting of the user's and a config file resolved: typescript is chosen.
C8_Witness ==
    /\ HasCall
    /\ is_typescript
    /\ is_json
    /\ ~is_css
    /\ settings.prettier_options["parser"] = L("flow")
    /\ env.resolved_config # None
    /\ HasFlagValue(PluginPart, L("--parser"), L("typescript"))

\* C9: the command line of every call of prettier is node_path (only when it
\* is not empty), the prettier path, '--stdin', and the options: the
\* plugin-generated ones, which hold '--tab-width <tab_size>' followed at once
\* by '--use-tabs <true|false>', '--stdin-filepath <file>' exactly when the view
\* is not html, and '--ignore-path <path>' exactly when the user gave no
\* '--ignore-path' and an ignore file was resolved; then all of the user's
\* arguments. It is the command line the current settings and view give,
\* whatever the invocation before did.
C9_CommandLine ==
    HasCall =>
        /\ inv.cmd = (IF settings.node_path = None \/ Strip(settings.node_path) = <<>>
                      THEN <<>> ELSE <<settings.node_path>>)
                     \o <<env.cli_path, L("--stdin")>> \o PluginPart \o UserOptions
        /\ \E k \in 1..(Len(PluginPart) - 3) :
              /\ PluginPart[k] = L("--tab-width")
              /\ PluginPart[k + 1] = L(ToString(tab_size))
              /\ PluginPart[k + 2] = L("--use-tabs")
              /\ PluginPart[k + 3] = (IF use_tabs THEN L("true") ELSE L("false"))
        /\ Cardinality(Positions(PluginPart, L("--tab-width"))) = 1
        /\ Cardinality(Positions(PluginPart, L("--use-tabs"))) = 1
        /\ IF is_html THEN Positions(PluginPart, L("--stdin-filepath")) = {}
           ELSE HasFlagValue(PluginPart, L("--stdin-filepath"), file_name)
        /\ IF ~UserHas(L("--ignore-path")) /\ env.ignore_path # None
           THEN /\ HasFlagValue(PluginPart, L("--ignore-path"), env.ignore_path)
                /\ PluginPart[Len(PluginPart) - 1] = L("--ignore-path")
           ELSE Positions(PluginPart, L("--ignore-path")) = {}
        /\ inv.cmd = Cmd(settings.node_path, env.cli_path, RunOptions(inv.save_file, inv.auto))

\* A call of prettier in an invocation that follows a failed one, with no
\* node_path, arguments of the user's, an ignore file, and a view that is not html.
C9_Witness ==
    /\ HasCall
    /\ has_error(inv.err0)
    /\ settings.node_path = <<>>
    /\ UserOptions # <<>>
    /\ env.ignore_path # None
    /\ ~is_html
    /\ inv.cmd[1] = env.cli_path
    /\ HasFlagValue(PluginPart, L("--stdin-filepath"), file_name)

\* The config path the claim has on_pre_save find: the '--config' value of
\* additional_cli_args when it exists on disk, else the path resolved from the view.
ClaimedConfigPath ==
    LET given == get_cli_arg_value(settings.additional_cli_args, L("--config"))
    IN IF Truthy(given) /\ exists(given) THEN given ELSE env.resolved_config

\* C10, as claimed: with 'auto_format_on_save_requires_prettier_config' on, a
\* save whose gate is open invokes the command only if the config path found
\* (the '--config' value of additional_cli_args, or else the path resolved
\* from the view) exists on disk, and passes exactly that path; with no such
\* file the command is not invoked and the buffer is left alone. With the
\* setting off the command is invoked with None.
C10_ConfigPathPassed ==
    (presave.outcome # "none" /\ GateOpen) =>
        IF settings.auto_format_on_save_requires_prettier_config
        THEN IF Truthy(ClaimedConfigPath) /\ exists(ClaimedConfigPath)
             THEN presave.outcome = "invoked" => inv.auto = ClaimedConfigPath
             ELSE presave.outcome # "invoked" /\ buffer = presave.buf
        ELSE presave.outcome = "invoked" /\ inv.auto = None

\* The config path run resolves for the user who passes no '--config': none
\* with '--no-config', the path on_pre_save found when it exists, else the path
\* resolved from the view.
ResolvedConfigPath ==
    IF UserHas(L("--no-config")) THEN None
    ELSE IF inv.save_file /\ Truthy(inv.auto) /\ exists(inv.auto) THEN inv.auto
    ELSE env.resolved_config
PluginHas(flag) == Positions(PluginPart, flag) # {}

\* C11: in the command line of every call of prettier the plugin-generated
\* options hold '--config <path>' exactly when a config path was resolved and
\* the user gave no '--config'; '--config-precedence cli-override' exactly when
\* they hold the plugin's '--config' and the user gave no '--config-precedence',
\* right after the path; and '--no-config' exactly when no config path was
\* resolved and the user gave neither '--no-config' nor '--config'. They never
\* hold both '--config' and '--no-config', and no '--config' when the user
\* gives '--no-config'.
C11_ConfigFlags ==
    HasCall =>
        /\ PluginHas(L("--config")) <=>
              (~UserHas(L("--config")) /\ Truthy(ResolvedConfigPath))
        /\ PluginHas(L("--config")) =>
              /\ HasFlagValue(PluginPart, L("--config"), ResolvedConfigPath)
              /\ PluginPart[1] = L("--config")
        /\ PluginHas(L("--config-precedence")) <=>
              (PluginHas(L("--config")) /\ ~UserHas(L("--config-precedence")))
        /\ PluginHas(L("--config-precedence")) =>
              /\ HasFlagValue(PluginPart, L("--config-precedence"), L("cli-override"))
              /\ PluginPart[3] = L("--config-precedence")
        /\ PluginHas(L("--no-config")) <=>
              /\ ~Truthy(ResolvedConfigPath)
              /\ ~UserHas(L("--no-config"))
              /\ ~UserHas(L("--config"))
        /\ Cardinality(Positions(PluginPart, L("--no-config"))) <= 1
        /\ ~(PluginHas(L("--config")) /\ PluginHas(L("--no-config")))
        /\ UserHas(L("--no-config")) => ~PluginHas(L("--config"))

\* A call for a user who passes '--config' and '--no-config', in a project with
\* a config file: the plugin adds neither flag of its own.
C11_Witness ==
    /\ HasCall
    /\ UserHas(L("--no-config"))
    /\ UserHas(L("--config"))
    /\ env.resolved_config # None
    /\ ~PluginHas(L("--config"))
    /\ ~PluginHas(L("--no-config"))
    /\ PluginHas(L("--tab-width"))

\* The text ends with a line break.
EndsWithNewline(buf) == buf # <<>> /\ buf[Len(buf)] = "\n"
\* The last invocation formatted the whole file with success, from source to
\* the buffer as it is, with prettier's output as the formatter gives it.
Source == inv.buf0
Output == Format(inv.buf0)
\* The status of a successful whole-file format tells what happened to the buffer.
StatusMatchesBuffer ==
    FormattedFile(inv) =>
        /\ EndsWithNewline(buffer)
        /\ Len(RunShown) = 1
        /\ LastShown \in {MsgFileAlready, MsgFileFormatted}
        /\ LastShown = MsgFileAlready <=> buffer = Source
        /\ buffer = Source <=>
              /\ trim_trailing_ws_and_lines(Output) = trim_trailing_ws_and_lines(Source)
              /\ EndsWithNewline(Source)
        /\ LastShown = MsgFileFormatted <=>
              \/ LastCall.replaced /\ buffer = Append(LastCall.text, "\n")
              \/ ~LastCall.replaced /\ ~EndsWithNewline(Source) /\ buffer = Append(Source, "\n")
\* Formatting the whole file again, right after a successful whole-file format,
\* changes nothing and says so.
AgainAlreadyFormatted ==
    (inv.prev /\ inv.mode = "file") =>
        /\ inv.outcome = "already"
        /\ LastShown = MsgFileAlready
        /\ buffer = Source
\* The formatter's output does not depend on the white space its input ends with.
TrailingInsensitive(f) ==
    \A x, y \in DOMAIN f :
        trim_trailing_ws_and_lines(x) = trim_trailing_ws_and_lines(y) => f[x] = f[y]

\* C12, as claimed: after a successful whole-file format the buffer ends with a
\* line break and the status tells what happened to it; and with an idempotent
\* formatter, formatting the whole file again at once leaves the buffer as it
\* is and shows 'File already formatted.'.
C12_IdempotentFormatter ==
    /\ StatusMatchesBuffer
    /\ Idempotent(env.formatter) => AgainAlreadyFormatted

\* C12, amended: after a successful whole-file format the buffer ends with a
\* line break, 'File already formatted.' is shown exactly when the buffer was
\* left as it was (the trimmed output equals the trimmed source and the buffer
\* ended with a line break), and 'File formatted.' exactly when the text was
\* replaced or a line break inserted. Formatting the whole file again at once
\* leaves the buffer as it is and shows 'File already formatted.' when the
\* formatter is idempotent and its output does not depend on the white space
\* its input ends with: the buffer the second run reads is the trimmed output
\* plus a line break, not the output itself.
C12_FormatTwice ==
    /\ StatusMatchesBuffer
    /\ (Idempotent(env.formatter) /\ TrailingInsensitive(env.formatter)) => AgainAlreadyFormatted

\* 'a' is formatted to 'b' and a line break, and formatted again at once: the
\* second run finds the file already formatted.
C12_Witness ==
    /\ inv.prev
    /\ inv.mode = "file"
    /\ inv.outcome = "already"
    /\ TrailingInsensitive(env.formatter)
    /\ env.formatter[<<"a">>] = <<"b", "\n">>
    /\ buffer = <<"b", "\n">>
    /\ LastShown = MsgFileAlready


====
